---- MODULE Spec2Model ----
(***************************************************************************)
(* Perfect codes in Generalized Lucas Cubes (LeGenAI/lucas_cubes).         *)
(*                                                                         *)
(* A bit string is a sequence of the characters "0" and "1", as in the     *)
(* Python source.  A Python list is a sequence, a Python set is a set.     *)
(* The value None is the string "None".                                    *)
(***************************************************************************)
EXTENDS Integers, Sequences, FiniteSets, TLC

None == "None"

\* ------------------------------------------------------------------ bounds
\* constructor arguments tried in SpecCube: n in -1..MaxN, s in 0..MaxS
MaxN == 5
MaxS == 5
\* cubes tried in SpecVerify: n in 1..VMaxN, s in 2..VMaxS; codes of at most
\* MaxCodeLen codewords
VMaxN == 3
VMaxS == 4
MaxCodeLen == 3
\* engine configurations tried in SpecEngines: generations in 0..MaxGenerations,
\* local_search_steps in 0..MaxLocalSteps
\* max_iterations in 0..MaxIterations
MaxGenerations == 2
MaxLocalSteps == 1
MaxIterations == 3
\* codes handed to the engines' evaluation functions in SpecEval: lists of at
\* most EvalMaxLen vertices
EvalMaxLen == 3
MaxPool == 3

\* ---------------------------------------------------------- Python helpers
Min(a, b) == IF a < b THEN a ELSE b
Max(a, b) == IF a > b THEN a ELSE b

\* bits[lo:hi] for 0 <= lo, 0 <= hi (Python clamps both to len(bits))
Slice(bits, lo, hi) == SubSeq(bits, Min(lo, Len(bits)) + 1, Min(hi, Len(bits)))

\* pattern in bits (substring test of two Python strings)
StrIn(pattern, bits) ==
    \E i \in 1..(Len(bits) - Len(pattern) + 1) :
        SubSeq(bits, i, i + Len(pattern) - 1) = pattern

\* '1' * s
Repeat(c, k) == [i \in 1..k |-> c]

\* the binary digits of i >= 0, most significant first, no padding
RECURSIVE BinDigits(_)
BinDigits(i) ==
    IF i < 2 THEN << IF i = 1 THEN "1" ELSE "0" >>
    ELSE BinDigits(i \div 2) \o << IF i % 2 = 1 THEN "1" ELSE "0" >>

\* format(i, f'0{width}b'): zero-padded on the left to at least width characters
format(i, width) ==
    LET d == BinDigits(i)
    IN  IF Len(d) < width THEN Repeat("0", width - Len(d)) \o d ELSE d

\* set(list)
ToSet(list) == {list[i] : i \in 1..Len(list)}

\* ------------------------------------------------------- GeneralizedLucasCube
\* variant: the wrap-around (seam) check is left out
_has_forbidden_substring_linear_only(bits, pattern) ==
    IF Len(bits) < Len(pattern) THEN FALSE ELSE StrIn(pattern, bits)

\* variant: the early return is taken for n_len <= s_len
_has_forbidden_substring_le(bits, pattern) ==
    LET n_len == Len(bits)
        s_len == Len(pattern)
    IN  IF n_len <= s_len THEN FALSE
        ELSE \/ StrIn(pattern, bits)
             \/ StrIn(pattern, Slice(bits, n_len - s_len + 1, n_len)
                                \o Slice(bits, 0, s_len - 1))

\* _has_forbidden_substring(bits, pattern)
_has_forbidden_substring(bits, pattern) ==
    LET n_len == Len(bits)
        s_len == Len(pattern)
    IN  IF n_len < s_len THEN FALSE
        ELSE IF StrIn(pattern, bits) THEN TRUE
        ELSE IF s_len > 1
                /\ StrIn(pattern, Slice(bits, n_len - s_len + 1, n_len)
                                  \o Slice(bits, 0, s_len - 1))
             THEN TRUE
        ELSE FALSE

\* _generate_vertices(): the vertices the loop appends for i in lo..hi-1, in
\* increasing order of i (the range is halved to keep the evaluation shallow)
RECURSIVE GenerateRange(_, _, _, _)
GenerateRange(lo, hi, nn, pattern) ==
    IF lo >= hi THEN << >>
    ELSE IF hi = lo + 1
    THEN LET bits == format(lo, nn)
         IN  IF ~_has_forbidden_substring(bits, pattern) THEN <<bits>> ELSE << >>
    ELSE LET mid == (lo + hi) \div 2
         IN  GenerateRange(lo, mid, nn, pattern) \o GenerateRange(mid, hi, nn, pattern)

\* the list of vertices from i on
GenerateFrom(i, nn, pattern) == GenerateRange(i, 2 ^ nn, nn, pattern)

_generate_vertices(c) == GenerateFrom(0, c.n, c.forbidden_pattern)


\* an Optional attribute: << >> is None, <<x>> holds x
Some(x) == <<x>>
IsNone(o) == Len(o) = 0
Val(o) == o[1]

\* the object __init__ builds (lines 18-24)
NewCube(nn, ss) ==
    [n |-> nn, s |-> ss, forbidden_pattern |-> Repeat("1", ss),
     _vertices |-> << >>, _vertex_set |-> << >>]

\* property vertices: the cube after the access (the list is cached once)
WithVertices(c) ==
    IF IsNone(c._vertices) THEN [c EXCEPT !._vertices = Some(_generate_vertices(c))]
    ELSE c

\* property vertex_set: the cube after the access
WithVertexSet(c) ==
    IF IsNone(c._vertex_set)
    THEN LET c1 == WithVertices(c)
         IN  [c1 EXCEPT !._vertex_set = Some(ToSet(Val(c1._vertices)))]
    ELSE c

vertices(c) == Val(WithVertices(c)._vertices)
vertex_set(c) == Val(WithVertexSet(c)._vertex_set)

\* __contains__: bits in cube
Contains(c, bits) == bits \in vertex_set(c)

\* the i-th candidate of get_neighbors (i is 0-based): bits with bit i flipped
Flip(bits, i) == [bits EXCEPT ![i + 1] = IF bits[i + 1] = "0" THEN "1" ELSE "0"]

\* get_neighbors(bits): the flips that are in the cube, in order of position
RECURSIVE NeighborsFrom(_, _, _)
NeighborsFrom(c, bits, i) ==
    IF i >= c.n THEN << >>
    ELSE (IF Contains(c, Flip(bits, i)) THEN <<Flip(bits, i)>> ELSE << >>)
         \o NeighborsFrom(c, bits, i + 1)

\* variant: every flip is returned, in the cube or not
get_neighbors_unfiltered(c, bits) == [i \in 1..c.n |-> Flip(bits, i - 1)]

get_neighbors(c, bits) == NeighborsFrom(c, bits, 0)

\* get_closed_neighborhood(bits)
get_closed_neighborhood(c, bits) ==
    IF ~Contains(c, bits) THEN << >> ELSE <<bits>> \o get_neighbors(c, bits)

\* ------------------------------------------------------- PerfectCodeSearcher
\* the loop of is_perfect_code from codeword i (1-based) with covered_vertices
RECURSIVE PerfectLoop(_, _, _, _)
PerfectLoop(c, C, i, covered_vertices) ==
    IF i > Len(C) THEN covered_vertices = vertex_set(c)
    ELSE IF C[i] \notin vertex_set(c) THEN FALSE
    ELSE LET neighborhood == {C[i]} \cup ToSet(get_neighbors(c, C[i]))
         IN  IF covered_vertices \cap neighborhood # {} THEN FALSE
             ELSE PerfectLoop(c, C, i + 1, covered_vertices \cup neighborhood)

\* variant: the overlap check is left out
is_perfect_code_no_overlap_check(c, C) ==
    /\ Len(C) > 0
    /\ \A i \in 1..Len(C) : C[i] \in vertex_set(c)
    /\ UNION {{C[i]} \cup ToSet(get_neighbors(c, C[i])) : i \in 1..Len(C)}
         = vertex_set(c)

\* variant: only the codeword itself is looked up in covered_vertices
RECURSIVE PerfectLoop_codeword_only(_, _, _, _)
PerfectLoop_codeword_only(c, C, i, covered_vertices) ==
    IF i > Len(C) THEN covered_vertices = vertex_set(c)
    ELSE IF C[i] \notin vertex_set(c) THEN FALSE
    ELSE IF C[i] \in covered_vertices THEN FALSE
    ELSE PerfectLoop_codeword_only(c, C, i + 1,
             covered_vertices \cup {C[i]} \cup ToSet(get_neighbors(c, C[i])))

is_perfect_code_codeword_only(c, C) ==
    IF Len(C) = 0 THEN FALSE ELSE PerfectLoop_codeword_only(c, C, 1, {})

is_perfect_code(c, C) ==
    IF Len(C) = 0 THEN FALSE ELSE PerfectLoop(c, C, 1, {})

\* get_theoretical_code_size(): len(V) / (n + 1), kept as an exact fraction
get_theoretical_code_size(c) ==
    [num |-> Cardinality(vertex_set(c)), den |-> c.n + 1]

IsIntegral(q) == q.num % q.den = 0


\* ------------------------------------------------------------------- state
VARIABLES
    pc,          \* where the program is
    args,        \* the arguments of the constructor call
    cube,        \* the GeneralizedLucasCube object (None before construction)
    call,        \* the last method call made on the objects, with its arguments
    ret,         \* what that call returned
    exc,         \* the exception raised (None when none was)
    cfg,         \* the search engine's configuration (its attributes)
    population,  \* genetic, memetic: the population, a list of codes
    gen,         \* the loop counter: generation or annealing iteration
    cur,         \* annealing: current_code and its energy, uncovered, collisions
    best,        \* annealing: best_code and best_energy
    temp,        \* annealing: the temperature, an exact fraction
    result,      \* what run() returned
    verified     \* the last is_perfect_code call made by run(): code and answer

objVars == <<pc, args, cube, call, ret, exc>>
engVars == <<cfg, population, gen, cur, best, temp, result, verified>>
vars == <<pc, args, cube, call, ret, exc,
          cfg, population, gen, cur, best, temp, result, verified>>

\* no search engine exists
NoEngine ==
    /\ cfg = None /\ population = None /\ gen = 0 /\ cur = None
    /\ best = None /\ temp = None /\ result = None /\ verified = None

\* all n-character bit strings
BitStrings(nn) == [1..nn -> {"0", "1"}]

\* all lists over S of at most k elements
Lists(S, k) == UNION {[1..m -> S] : m \in 0..k}

\* ------------------------------------------------ GeneralizedLucasCube(n, s)
\* variant: n = 0 is accepted
Construct_n_nonneg ==
    /\ pc = "new"
    /\ call' = [op |-> "__init__"]
    /\ ret' = None
    /\ IF ~(args.n >= 0) \/ ~(args.s > 1)
       THEN /\ exc' = "ValueError"
            /\ pc' = "raised"
            /\ cube' = cube
       ELSE /\ exc' = None
            /\ pc' = "ready"
            /\ cube' = NewCube(args.n, args.s)
    /\ UNCHANGED <<args, engVars>>

\* __init__: raises ValueError unless n > 0 and s > 1
Construct ==
    /\ pc = "new"
    /\ call' = [op |-> "__init__"]
    /\ ret' = None
    /\ IF ~(args.n > 0) \/ ~(args.s > 1)
       THEN /\ exc' = "ValueError"
            /\ pc' = "raised"
            /\ cube' = cube
       ELSE /\ exc' = None
            /\ pc' = "ready"
            /\ cube' = NewCube(args.n, args.s)
    /\ UNCHANGED <<args, engVars>>

\* cube.vertices
AccessVertices ==
    /\ pc = "ready"
    /\ cube' = WithVertices(cube)
    /\ call' = [op |-> "vertices"]
    /\ ret' = vertices(cube)
    /\ UNCHANGED <<pc, args, exc, engVars>>

\* cube.vertex_set
AccessVertexSet ==
    /\ pc = "ready"
    /\ cube' = WithVertexSet(cube)
    /\ call' = [op |-> "vertex_set"]
    /\ ret' = vertex_set(cube)
    /\ UNCHANGED <<pc, args, exc, engVars>>

\* bits in cube
CallContains ==
    /\ pc = "ready"
    /\ \E bits \in BitStrings(cube.n) :
        /\ cube' = WithVertexSet(cube)
        /\ call' = [op |-> "__contains__", bits |-> bits]
        /\ ret' = Contains(WithVertexSet(cube), bits)
    /\ UNCHANGED <<pc, args, exc, engVars>>

\* len(cube)
CallLen ==
    /\ pc = "ready"
    /\ cube' = WithVertices(cube)
    /\ call' = [op |-> "__len__"]
    /\ ret' = Len(vertices(cube))
    /\ UNCHANGED <<pc, args, exc, engVars>>

\* cube.get_neighbors(bits)
CallGetNeighbors ==
    /\ pc = "ready"
    /\ \E bits \in BitStrings(cube.n) :
        /\ cube' = WithVertexSet(cube)
        /\ call' = [op |-> "get_neighbors", bits |-> bits]
        /\ ret' = get_neighbors(WithVertexSet(cube), bits)
    /\ UNCHANGED <<pc, args, exc, engVars>>

\* cube.get_closed_neighborhood(bits)
CallGetClosedNeighborhood ==
    /\ pc = "ready"
    /\ \E bits \in BitStrings(cube.n) :
        /\ cube' = WithVertexSet(cube)
        /\ call' = [op |-> "get_closed_neighborhood", bits |-> bits]
        /\ ret' = get_closed_neighborhood(WithVertexSet(cube), bits)
    /\ UNCHANGED <<pc, args, exc, engVars>>

InitCube ==
    /\ pc = "new"
    /\ args \in [n : -1..MaxN, s : 0..MaxS]
    /\ cube = None /\ call = None /\ ret = None /\ exc = None
    /\ NoEngine

NextCube ==
    \/ Construct
    \/ AccessVertices
    \/ AccessVertexSet
    \/ CallContains
    \/ CallLen
    \/ CallGetNeighbors
    \/ CallGetClosedNeighborhood

SpecCube == InitCube /\ [][NextCube]_vars

\* ------------------------------------------------ PerfectCodeSearcher(cube)
\* searcher.is_perfect_code(C), for a list C of n-bit strings
CallIsPerfectCode ==
    /\ pc = "searcher"
    /\ \E C \in Lists(BitStrings(cube.n), MaxCodeLen) \cup {vertices(cube)} :
        /\ call' = [op |-> "is_perfect_code", C |-> C]
        /\ ret' = is_perfect_code(cube, C)
    /\ exc' = None
    /\ pc' = "returned"
    /\ UNCHANGED <<args, cube, engVars>>

\* searcher.get_theoretical_code_size()
CallGetTheoreticalCodeSize ==
    /\ pc = "searcher"
    /\ call' = [op |-> "get_theoretical_code_size"]
    /\ ret' = get_theoretical_code_size(cube)
    /\ exc' = None
    /\ pc' = "returned"
    /\ UNCHANGED <<args, cube, engVars>>

\* a cube and its searcher: PerfectCodeSearcher.__init__ reads cube.vertex_set.
\* The searcher's methods change no state, so one call per behaviour is followed.
InitVerify ==
    /\ pc = "searcher"
    /\ args \in [n : 1..VMaxN, s : 2..VMaxS]
    /\ cube = WithVertexSet(NewCube(args.n, args.s))
    /\ call = None /\ ret = None /\ exc = None
    /\ NoEngine

NextVerify ==
    \/ CallIsPerfectCode
    \/ CallGetTheoreticalCodeSize

SpecVerify == InitVerify /\ [][NextVerify]_vars


\* ============================================================ search engines
\* ---------------------------------------------------------- module random
\* the injective maps of 1..k into 1..m: k distinct positions of a list
Injections(k, m) ==
    {f \in [1..k -> 1..m] : \A i, j \in 1..k : i # j => f[i] # f[j]}

\* random.sample(list, k), for 0 <= k <= len(list): every outcome
Sample(list, k) ==
    {[i \in 1..k |-> list[f[i]]] : f \in Injections(k, Len(list))}

\* list(a_set): a Python set is iterated in an order the program does not fix
Perms(S) ==
    LET k == Cardinality(S)
    IN  {f \in [1..k -> S] : \A i, j \in 1..k : i # j => f[i] # f[j]}

\* random.random() < p, for the fraction p: the truth values it can take
Chance(p) ==
    IF p.num <= 0 THEN {FALSE}
    ELSE IF p.num >= p.den THEN {TRUE}
    ELSE BOOLEAN

\* code.pop(i), i 1-based here: the list left
RemoveAt(list, i) == SubSeq(list, 1, i - 1) \o SubSeq(list, i + 1, Len(list))

\* x in list
InList(x, list) == \E i \in 1..Len(list) : list[i] = x

\* ----------------------------------------------- GeneticAlgorithmSearch
\* _calculate_fitness: the loop from codeword i on
RECURSIVE GA_FitnessLoop(_, _, _, _, _)
GA_FitnessLoop(c, code, i, covered_vertices, collisions) ==
    IF i > Len(code)
    THEN Cardinality(covered_vertices) - collisions * (c.n + 1) * 10
    ELSE LET neighborhood == {code[i]} \cup ToSet(get_neighbors(c, code[i]))
         IN  GA_FitnessLoop(c, code, i + 1, covered_vertices \cup neighborhood,
                 IF covered_vertices \cap neighborhood # {}
                 THEN collisions + 1 ELSE collisions)

GA_calculate_fitness(c, code) == GA_FitnessLoop(c, code, 1, {}, 0)

\* _crossover(parent1, parent2): every child.  A gene of both parents is
\* always kept; a gene of one parent is kept on one side of the coin.
GA_crossover(parent1, parent2) ==
    LET p1_set == ToSet(parent1)
        p2_set == ToSet(parent2)
        both == p1_set \cap p2_set
        one == (p1_set \cup p2_set) \ both
    IN  UNION {Perms(both \cup X) : X \in SUBSET one}

\* _mutate(code): every outcome
GA_mutate(c, mutation_rate, code) ==
    UNION {
        IF ~m THEN {code}
        ELSE (IF Len(code) > 1
              THEN {RemoveAt(code, i) : i \in 1..Len(code)} ELSE {})
             \cup {IF InList(new_gene, code) THEN code ELSE Append(code, new_gene)
                   : new_gene \in ToSet(vertices(c))}
        : m \in Chance(mutation_rate)}

\* _selection(population, fitnesses): every list of indices it can select.
\* Each entry is the winner of a tournament of two indices i, j drawn at random
GA_selection(fitnesses) ==
    LET N == Len(fitnesses)
        winners == {IF fitnesses[i] > fitnesses[j] THEN i ELSE j : i, j \in 1..N}
    IN  [1..N -> winners]

\* the indices of a population in the order sorted(..., reverse=True) gives:
\* by decreasing fitness, equal fitnesses in their original order
SortedDesc(fitnesses) ==
    LET N == Len(fitnesses)
    IN  CHOOSE p \in Injections(N, N) :
            \A i, j \in 1..N :
                i < j => \/ fitnesses[p[i]] > fitnesses[p[j]]
                         \/ (fitnesses[p[i]] = fitnesses[p[j]] /\ p[i] < p[j])

\* max(fitnesses), fitnesses.index(max(fitnesses)) (1-based here)
MaxOf(fitnesses) ==
    CHOOSE m \in ToSet(fitnesses) : \A i \in 1..Len(fitnesses) : fitnesses[i] <= m

IndexOf(fitnesses, x) ==
    CHOOSE i \in 1..Len(fitnesses) :
        fitnesses[i] = x /\ \A j \in 1..(i - 1) : fitnesses[j] # x

\* variant: the population is sorted by increasing fitness (reverse=True is
\* missing), so the first elitism_k are the worst
Elite_ascending(pop, fitnesses, elitism_k) ==
    LET order == SortedDesc(fitnesses)
    IN  [i \in 1..Min(elitism_k, Len(pop)) |-> pop[order[Len(pop) + 1 - i]]]

\* sorted_population[:elitism_k], elitism_k >= 0
Elite(pop, fitnesses, elitism_k) ==
    LET order == SortedDesc(fitnesses)
    IN  [i \in 1..Min(elitism_k, Len(pop)) |-> pop[order[i]]]

\* p1, p2 = random.sample(selected, 2), selected a list of indices into the
\* population: every pair of parents it can give
ParentPairs(pop, selected) ==
    {<<pop[selected[pos[1]]], pop[selected[pos[2]]]>>
     : pos \in Injections(2, Len(selected))}

\* the children the pairs of parents can make: crossover, then mutation
GA_Children(c, mutation_rate, pairs) ==
    UNION {UNION {GA_mutate(c, mutation_rate, child)
                  : child \in GA_crossover(p[1], p[2])}
           : p \in pairs}

\* GeneticAlgorithmSearch.__init__: the attributes it sets
GA_Config(c, population_size, generations, mutation_rate, elitism_k) ==
    [kind |-> "ga", population_size |-> population_size, generations |-> generations,
     mutation_rate |-> mutation_rate, elitism_k |-> elitism_k, n |-> c.n,
     theoretical_size |-> (Len(vertices(c)) + c.n) \div (c.n + 1)]

\* run(), line 83: _initialize_population()
GA_Start ==
    /\ pc = "constructed" /\ cfg.kind = "ga"
    /\ population' \in [1..cfg.population_size ->
                           Sample(vertices(cube), cfg.theoretical_size)]
    /\ gen' = 0
    /\ pc' = "loop"
    /\ UNCHANGED <<args, cube, call, ret, exc, cfg, cur, best, temp, result, verified>>

\* run(), lines 85-117: one pass of the generation loop
GA_Generation ==
    /\ pc = "loop" /\ cfg.kind = "ga"
    /\ gen < cfg.generations
    /\ LET fitnesses == [i \in 1..Len(population) |->
                            GA_calculate_fitness(cube, population[i])]
           best_fitness_in_gen == MaxOf(fitnesses)
           best_index == IndexOf(fitnesses, best_fitness_in_gen)
           final_code == population[best_index]
           potential == best_fitness_in_gen >= Len(vertices(cube))
           ok == is_perfect_code(cube, final_code)
           elite == Elite(population, fitnesses, cfg.elitism_k)
           m == cfg.population_size - Len(elite)
       IN  /\ verified' = IF potential THEN <<[code |-> final_code, ok |-> ok]>>
                          ELSE verified
           /\ IF potential /\ ok
              THEN /\ result' = <<final_code>>
                   /\ pc' = "done"
                   /\ UNCHANGED <<population, gen, exc>>
              ELSE IF m > 0 /\ Len(population) < 2
              THEN \* random.sample(selected_parents, 2) of fewer than 2 parents
                   /\ exc' = "ValueError"
                   /\ pc' = "raised"
                   /\ UNCHANGED <<population, gen, result>>
              ELSE /\ population' \in
                       UNION {{elite \o kids
                               : kids \in [1..m -> GA_Children(cube, cfg.mutation_rate, pairs)]}
                              : pairs \in {ParentPairs(population, selected)
                                           : selected \in GA_selection(fitnesses)}}
                   /\ gen' = gen + 1
                   /\ UNCHANGED <<pc, exc, result>>
    /\ UNCHANGED <<args, cube, call, ret, cfg, cur, best, temp>>

\* run(), lines 119-121: the generations are used up
GA_Exhausted ==
    /\ pc = "loop" /\ cfg.kind = "ga"
    /\ gen >= cfg.generations
    /\ result' = << >>
    /\ pc' = "done"
    /\ UNCHANGED <<args, cube, call, ret, exc, cfg, population, gen, cur, best,
                   temp, verified>>

\* ------------------------------------------------------------ code_utils
\* get_hamming_distance(s1, s2) for strings of one length (it raises otherwise),
\* and the same count written inline, sum(1 for i, j in zip(a, b) if i != j)
get_hamming_distance(s1, s2) ==
    Cardinality({i \in 1..Min(Len(s1), Len(s2)) : s1[i] # s2[i]})

\* ord() of a bit character, and Python's order of two strings
Ord(ch) == IF ch = "0" THEN 48 ELSE 49

StrLt(a, b) ==
    \/ \E i \in 1..Min(Len(a), Len(b)) :
           /\ \A j \in 1..(i - 1) : a[j] = b[j]
           /\ Ord(a[i]) < Ord(b[i])
    \/ (Len(a) < Len(b) /\ \A j \in 1..Len(a) : a[j] = b[j])

\* the pairs (cw1, cw2) of a set of codewords that the double loop keeps:
\* not cw1 >= cw2, and fewer than 3 differing positions
CollidingPairs(code_set) ==
    {p \in code_set \X code_set :
        StrLt(p[1], p[2]) /\ get_hamming_distance(p[1], p[2]) < 3}

\* set().union(*(cube.get_closed_neighborhood(c) for c in codes))
CoveredBy(c, codes) == UNION {ToSet(get_closed_neighborhood(c, x)) : x \in codes}

RECURSIVE SumSeq(_, _)
SumSeq(f, i) == IF i > Len(f) THEN 0 ELSE f[i] + SumSeq(f, i + 1)

\* ----------------------------------------------- MemeticAlgorithmSearch
\* variant: the collisions, counted from both ends of a pair, are not halved
MA_calculate_fitness_counts_both_ends(c, code) ==
    LET code_set == ToSet(code)
        counts == [i \in 1..Len(code) |->
                      Cardinality({other_cw \in code_set :
                          /\ other_cw # code[i]
                          /\ get_hamming_distance(code[i], other_cw) < 3})]
        collisions == SumSeq(counts, 1)
        covered_vertices ==
            UNION {{code[i]} \cup ToSet(get_neighbors(c, code[i])) : i \in 1..Len(code)}
        uncovered_count == Cardinality(vertex_set(c) \ covered_vertices)
    IN  [fitness |-> Cardinality(covered_vertices) - (uncovered_count * c.n)
                         - (collisions * c.n * 10),
         uncovered |-> uncovered_count,
         collisions |-> collisions]

\* _calculate_fitness(code): (fitness, uncovered_count, collisions // 2)
MA_calculate_fitness(c, code) ==
    LET code_set == ToSet(code)
        counts == [i \in 1..Len(code) |->
                      Cardinality({other_cw \in code_set :
                          /\ other_cw # code[i]
                          /\ get_hamming_distance(code[i], other_cw) < 3})]
        collisions == SumSeq(counts, 1)
        covered_vertices ==
            UNION {{code[i]} \cup ToSet(get_neighbors(c, code[i])) : i \in 1..Len(code)}
        uncovered_count == Cardinality(vertex_set(c) \ covered_vertices)
    IN  [fitness |-> Cardinality(covered_vertices) - (uncovered_count * c.n)
                         - ((collisions \div 2) * c.n * 10),
         uncovered |-> uncovered_count,
         collisions |-> collisions \div 2]

\* variant: with a colliding pair present, any codeword may be removed
MA_LocalStep_removes_any(c, current_code) ==
    LET colliding_pairs == CollidingPairs(current_code)
        uncovered == vertex_set(c) \ CoveredBy(c, current_code)
    IN  IF colliding_pairs # {}
        THEN {current_code \ {x} : x \in current_code}
        ELSE IF uncovered # {}
        THEN UNION {{current_code \cup {a}
                     : a \in ToSet(get_closed_neighborhood(c, vertex_to_cover))}
                    : vertex_to_cover \in uncovered}
        ELSE {current_code}

\* one pass of the loop of _local_search_optimizer on the set current_code:
\* every set it can leave
MA_LocalStep(c, current_code) ==
    LET colliding_pairs == CollidingPairs(current_code)
        uncovered == vertex_set(c) \ CoveredBy(c, current_code)
    IN  IF colliding_pairs # {}
        THEN {current_code \ {p[k]} : p \in colliding_pairs, k \in 1..2}
        ELSE IF uncovered # {}
        THEN UNION {{current_code \cup {a}
                     : a \in ToSet(get_closed_neighborhood(c, vertex_to_cover))}
                    : vertex_to_cover \in uncovered}
        ELSE {current_code}

RECURSIVE MA_LocalSteps(_, _, _)
MA_LocalSteps(c, current_code, steps) ==
    IF steps <= 0 THEN {current_code}
    ELSE UNION {MA_LocalSteps(c, next, steps - 1) : next \in MA_LocalStep(c, current_code)}

\* variant: with no repair step to make, the list is returned as it came
MA_local_search_optimizer_returns_input(c, local_search_steps, code) ==
    IF local_search_steps <= 0 THEN {code}
    ELSE UNION {Perms(S) : S \in MA_LocalSteps(c, ToSet(code), local_search_steps)}

\* _local_search_optimizer(code): every list it can return
MA_local_search_optimizer(c, local_search_steps, code) ==
    UNION {Perms(S) : S \in MA_LocalSteps(c, ToSet(code), local_search_steps)}

\* bisect(cum_weights, x, 0, hi) of random.choices, on the running sums S of
\* the fitnesses: cum_weights[k] is S[k+1] / T and x is X / T, T # 0
RECURSIVE BisectRight(_, _, _, _, _)
BisectRight(S, T, X, lo, hi) ==
    IF lo >= hi THEN lo
    ELSE LET mid == (lo + hi) \div 2
             less == IF T > 0 THEN X < S[mid + 1] ELSE X > S[mid + 1]
         IN  IF less THEN BisectRight(S, T, X, lo, mid)
             ELSE BisectRight(S, T, X, mid + 1, hi)

\* the indices (1-based) random.choices(population, weights=probs) can pick,
\* probs[i] = fitness[i] / total_fitness.  x = random() * total runs over
\* [0, 1); the pick changes only where x crosses a running sum, so 0 and the
\* running sums inside [0, 1) stand for every x.
RouletteIndices(fitnesses) ==
    LET N == Len(fitnesses)
        S == [k \in 1..N |-> SumSeq(SubSeq(fitnesses, 1, k), 1)]
        T == S[N]
        InUnit(X) == IF T > 0 THEN 0 <= X /\ X < T ELSE T < X /\ X <= 0
        Xs == {0} \cup {S[k] : k \in {j \in 1..N : InUnit(S[j])}}
    IN  {BisectRight(S, T, X, 0, N - 1) + 1 : X \in Xs}

\* _selection(population, fitnesses): every list of indices it can select
MA_selection(fitnesses) ==
    LET N == Len(fitnesses)
    IN  IF SumSeq(fitnesses, 1) = 0 THEN [1..N -> 1..N]
        ELSE [1..N -> RouletteIndices(fitnesses)]

\* _crossover(parent1, parent2), for parents of at least 2 codewords each
MA_crossover(parent1, parent2) ==
    {SubSeq(parent1, 1, point) \o SubSeq(parent2, point + 1, Len(parent2))
     : point \in 1..(Min(Len(parent1), Len(parent2)) - 1)}

\* random.randint(1, min(len(parent1), len(parent2)) - 1) raises ValueError
MA_crossover_raises(parent1, parent2) ==
    Min(Len(parent1), Len(parent2)) - 1 < 1

\* _mutate(code): every outcome
MA_mutate(c, mutation_rate, code) ==
    UNION {
        IF ~m THEN {code}
        ELSE (IF Len(code) > 0
              THEN {RemoveAt(code, i) : i \in 1..Len(code)} ELSE {})
             \cup {Append(code, g) : g \in ToSet(vertices(c))}
        : m \in Chance(mutation_rate)}

\* the children the pairs of parents can make: crossover (where it does not
\* raise), mutation, local search
MA_Children(c, config, pairs) ==
    UNION {
        IF MA_crossover_raises(p[1], p[2]) THEN {}
        ELSE UNION {UNION {MA_local_search_optimizer(c, config.local_search_steps, mutated)
                           : mutated \in MA_mutate(c, config.mutation_rate, child)}
                    : child \in MA_crossover(p[1], p[2])}
        : p \in pairs}

\* some pair of parents makes _crossover raise
MA_SomePairRaises(pairs) == \E p \in pairs : MA_crossover_raises(p[1], p[2])

\* MemeticAlgorithmSearch.__init__: the attributes it sets
MA_Config(c, population_size, generations, mutation_rate, elitism_k, local_search_steps) ==
    [kind |-> "ma", population_size |-> population_size, generations |-> generations,
     mutation_rate |-> mutation_rate, elitism_k |-> elitism_k,
     local_search_steps |-> local_search_steps, n |-> c.n,
     theoretical_size |-> (Len(vertices(c)) + c.n) \div (c.n + 1)]

\* run(), line 95: _initialize_population()
MA_Start ==
    /\ pc = "constructed" /\ cfg.kind = "ma"
    /\ population' \in [1..cfg.population_size ->
                           Sample(vertices(cube), cfg.theoretical_size)]
    /\ gen' = 0
    /\ pc' = "loop"
    /\ UNCHANGED <<args, cube, call, ret, exc, cfg, cur, best, temp, result, verified>>

\* run(), lines 98-129: one pass of the generation loop
MA_Generation ==
    /\ pc = "loop" /\ cfg.kind = "ma"
    /\ gen < cfg.generations
    /\ LET fitness_data == [i \in 1..Len(population) |->
                               MA_calculate_fitness(cube, population[i])]
           fitnesses == [i \in 1..Len(population) |-> fitness_data[i].fitness]
           best_idx == IndexOf(fitnesses, MaxOf(fitnesses))
           final_code == population[best_idx]
           met == fitness_data[best_idx].uncovered = 0
                  /\ fitness_data[best_idx].collisions = 0
           ok == is_perfect_code(cube, final_code)
           elite == Elite(population, fitnesses, cfg.elitism_k)
           m == cfg.population_size - Len(elite)
       IN  /\ verified' = IF met THEN <<[code |-> final_code, ok |-> ok]>> ELSE verified
           /\ IF met /\ ok
              THEN /\ result' = <<final_code>>
                   /\ pc' = "done"
                   /\ UNCHANGED <<population, gen, exc>>
              ELSE \E pairs \in {ParentPairs(population, selected)
                                 : selected \in MA_selection(fitnesses)} :
                     \/ \* random.sample(selected, 2) or random.randint raises
                        /\ m > 0
                        /\ Len(population) < 2 \/ MA_SomePairRaises(pairs)
                        /\ exc' = "ValueError"
                        /\ pc' = "raised"
                        /\ UNCHANGED <<population, gen, result>>
                     \/ /\ m <= 0 \/ Len(population) >= 2
                        /\ population' \in
                               {elite \o kids
                                : kids \in [1..m -> MA_Children(cube, cfg, pairs)]}
                        /\ gen' = gen + 1
                        /\ UNCHANGED <<pc, exc, result>>
    /\ UNCHANGED <<args, cube, call, ret, cfg, cur, best, temp>>

\* run(), lines 131-133: the generations are used up
MA_Exhausted ==
    /\ pc = "loop" /\ cfg.kind = "ma"
    /\ gen >= cfg.generations
    /\ result' = << >>
    /\ pc' = "done"
    /\ UNCHANGED <<args, cube, call, ret, exc, cfg, population, gen, cur, best,
                   temp, verified>>

\* ----------------------------------------------- SimulatedAnnealingSearch
\* fractions: a value num / den with den > 0
Frac(a, b) == [num |-> a, den |-> b]
FracMul(x, y) == Frac(x.num * y.num, x.den * y.den)

\* _calculate_energy(code): (energy, uncovered_count, collisions)
SA_calculate_energy(c, collision_penalty, code) ==
    LET code_set == ToSet(code)
        collisions == Cardinality(CollidingPairs(code_set))
        covered_vertices == CoveredBy(c, code_set)
        uncovered_count == Cardinality(vertex_set(c) \ covered_vertices)
    IN  [energy |-> (uncovered_count * c.n) + (collisions * collision_penalty),
         uncovered |-> uncovered_count,
         collisions |-> collisions]

\* variant: a codeword is removed whatever the size of the code
SA_get_neighbor_remove_unguarded(c, T, current_code) ==
    LET neighbor == ToSet(current_code)
        size == Cardinality(neighbor)
        potential_adds == vertex_set(c) \ neighbor
        After(action) ==
            IF action = "add" /\ size * T.den < T.num + 2 * T.den
            THEN IF potential_adds # {}
                 THEN {neighbor \cup {a} : a \in potential_adds} ELSE {neighbor}
            ELSE IF action = "remove" /\ neighbor # {}
            THEN {neighbor \ {r} : r \in neighbor}
            ELSE IF action = "swap" /\ neighbor # {}
            THEN IF potential_adds # {}
                 THEN {(neighbor \ {to_remove}) \cup {to_add}
                       : to_remove \in neighbor, to_add \in potential_adds}
                 ELSE {neighbor}
            ELSE {neighbor}
        Refilled(S) == IF S = {} THEN {{v} : v \in ToSet(vertices(c))} ELSE {S}
    IN  UNION {UNION {UNION {Perms(R) : R \in Refilled(S)} : S \in After(action)}
               : action \in {"add", "remove", "swap"}}

\* _get_neighbor(current_code): every list it can return.  T is
\* theoretical_size, the fraction len(V) / (n + 1)
SA_get_neighbor(c, T, current_code) ==
    LET neighbor == ToSet(current_code)
        size == Cardinality(neighbor)
        potential_adds == vertex_set(c) \ neighbor
        After(action) ==
            IF action = "add" /\ size * T.den < T.num + 2 * T.den
            THEN IF potential_adds # {}
                 THEN {neighbor \cup {a} : a \in potential_adds} ELSE {neighbor}
            ELSE IF action = "remove" /\ size * T.den > T.num - 2 * T.den
                    /\ neighbor # {}
            THEN {neighbor \ {r} : r \in neighbor}
            ELSE IF action = "swap" /\ neighbor # {}
            THEN IF potential_adds # {}
                 THEN {(neighbor \ {to_remove}) \cup {to_add}
                       : to_remove \in neighbor, to_add \in potential_adds}
                 ELSE {neighbor}
            ELSE {neighbor}
        Refilled(S) == IF S = {} THEN {{v} : v \in ToSet(vertices(c))} ELSE {S}
    IN  UNION {UNION {UNION {Perms(R) : R \in Refilled(S)} : S \in After(action)}
               : action \in {"add", "remove", "swap"}}

\* math.exp's limits on doubles, as decimal fractions: it raises from the
\* double 709.782712893384086... up (the largest argument with a finite result
\* is 709.782712893383973...) and returns 0.0 from the double
\* -745.133219101941222... down (-745.133219101941108... still gives 5e-324).
\* The digits are those of the midpoint of each pair, where the quotient
\* computed at line 98 rounds to one side or the other.
ExpOverflowWhole == 709
ExpOverflowDigits == <<7, 8, 2, 7, 1, 2, 8, 9, 3, 3, 8, 4, 0, 2, 9, 9>>
ExpZeroWhole == 745
ExpZeroDigits == <<1, 3, 3, 2, 1, 9, 1, 0, 1, 9, 4, 1, 1, 6, 5, 3>>

\* rest / Q (0 <= rest < Q) exceeds the decimal fraction 0.digits[i..], found
\* by long division one digit at a time
RECURSIVE FractionAbove(_, _, _, _)
FractionAbove(rest, Q, digits, i) ==
    IF i > Len(digits) THEN rest > 0
    ELSE LET d == (rest * 10) \div Q
             r == (rest * 10) % Q
         IN  IF d > digits[i] THEN TRUE
             ELSE IF d < digits[i] THEN FALSE
             ELSE FractionAbove(r, Q, digits, i + 1)

\* A / Q (A >= 0, Q > 0) exceeds the decimal whole.digits
ExceedsDecimal(A, Q, whole, digits) ==
    \/ A \div Q > whole
    \/ A \div Q = whole /\ FractionAbove(A % Q, Q, digits, 1)

\* line 98: neighbor_energy < current_energy or
\*          random.random() < math.exp((current_energy - neighbor_energy) / temp)
\* "ZeroDivisionError"/"OverflowError" when the division or math.exp raises,
\* else the truth values the condition can take.  The exponent is x = P / Q
\* with Q > 0, whatever the sign of the temperature.  math.exp raises above
\* its overflow limit and is 0.0 below its underflow limit; at x >= 0 it is
\* 1.0 or more and exceeds every value of random.random(); in between
\* random.random() can fall on either side (0.0 included).
SA_Acceptance(current_energy, neighbor_energy, t) ==
    IF neighbor_energy < current_energy THEN {"accept"}
    ELSE IF t.num = 0 THEN {"ZeroDivisionError"}
    ELSE LET sgn == IF (t.num < 0) = (t.den < 0) THEN 1 ELSE -1
             Q == IF t.num < 0 THEN -t.num ELSE t.num
             P == (current_energy - neighbor_energy) * sgn
                      * (IF t.den < 0 THEN -t.den ELSE t.den)
             A == IF P < 0 THEN -P ELSE P
         IN  IF P >= 0
             THEN IF ExceedsDecimal(A, Q, ExpOverflowWhole, ExpOverflowDigits)
                  THEN {"OverflowError"}
                  ELSE {"accept"}
             ELSE IF ExceedsDecimal(A, Q, ExpZeroWhole, ExpZeroDigits)
                  THEN {"reject"}
                  ELSE {"accept", "reject"}

\* SimulatedAnnealingSearch.__init__: the attributes it sets
SA_Config(c, initial_temp, cooling_rate, max_iterations, collision_penalty) ==
    [kind |-> "sa", n |-> c.n, s |-> c.s, initial_temp |-> initial_temp,
     cooling_rate |-> cooling_rate, max_iterations |-> max_iterations,
     collision_penalty |-> collision_penalty,
     theoretical_size |-> get_theoretical_code_size(c)]

\* variant: a zero best energy is returned without asking the verifier
SA_Succeeds_unverified(c, best_energy, best_code) == best_energy = 0

\* lines 114-120: best_energy == 0 and the verifier confirms best_code
SA_Succeeds(c, best_energy, best_code) ==
    best_energy = 0 /\ is_perfect_code(c, best_code)

\* run(), lines 84-91: the initial state
SA_Start ==
    /\ pc = "constructed" /\ cfg.kind = "sa"
    /\ \E current_code \in Sample(vertices(cube),
                                  cfg.theoretical_size.num \div cfg.theoretical_size.den) :
        LET e == SA_calculate_energy(cube, cfg.collision_penalty, current_code)
        IN  /\ cur' = [code |-> current_code, energy |-> e.energy,
                       uncovered |-> e.uncovered, collisions |-> e.collisions]
            /\ best' = [code |-> current_code, energy |-> e.energy]
    /\ temp' = cfg.initial_temp
    /\ gen' = 0
    /\ pc' = "loop"
    /\ UNCHANGED <<args, cube, call, ret, exc, cfg, population, result, verified>>

\* variant: the best solution follows the current one
SA_UpdateBest_follows_current(current, best_so_far) ==
    [code |-> current.code, energy |-> current.energy]

\* run(), lines 103-105: best_code and best_energy after the acceptance step
SA_UpdateBest(current, best_so_far) ==
    IF current.energy < best_so_far.energy
    THEN [code |-> current.code, energy |-> current.energy]
    ELSE best_so_far

\* run(), lines 93-123: one pass of the annealing loop
SA_Iteration ==
    /\ pc = "loop" /\ cfg.kind = "sa"
    /\ gen < cfg.max_iterations
    /\ \E neighbor_code \in SA_get_neighbor(cube, cfg.theoretical_size, cur.code) :
       \E ne \in {SA_calculate_energy(cube, cfg.collision_penalty, neighbor_code)} :
       \E outcome \in SA_Acceptance(cur.energy, ne.energy, temp) :
          IF outcome \notin {"accept", "reject"}
          THEN /\ exc' = outcome
               /\ pc' = "raised"
               /\ UNCHANGED <<cur, best, temp, gen, result, verified>>
          ELSE \E current \in {IF outcome = "accept"
                               THEN [code |-> neighbor_code, energy |-> ne.energy,
                                     uncovered |-> ne.uncovered,
                                     collisions |-> ne.collisions]
                               ELSE cur} :
               \E newbest \in {SA_UpdateBest(current, best)} :
               \E succeeds \in {SA_Succeeds(cube, newbest.energy, newbest.code)} :
                  /\ cur' = current
                  /\ best' = newbest
                  /\ temp' = FracMul(temp, cfg.cooling_rate)
                  /\ verified' = IF newbest.energy = 0
                                 THEN <<[code |-> newbest.code,
                                         ok |-> is_perfect_code(cube, newbest.code)]>>
                                 ELSE verified
                  /\ IF succeeds
                     THEN /\ result' = <<newbest.code>>
                          /\ pc' = "done"
                          /\ gen' = gen
                     ELSE /\ gen' = gen + 1
                          /\ UNCHANGED <<pc, result>>
                  /\ exc' = exc
    /\ UNCHANGED <<args, cube, call, ret, cfg, population>>

\* run(), lines 126-129: the iterations are used up
SA_Exhausted ==
    /\ pc = "loop" /\ cfg.kind = "sa"
    /\ gen >= cfg.max_iterations
    /\ result' = << >>
    /\ pc' = "done"
    /\ UNCHANGED <<args, cube, call, ret, exc, cfg, population, gen, cur, best,
                   temp, verified>>

\* ------------------------------------------------------------ the engines
\* the cubes the engines are run on, as <<n, s>>
EngineCubes == {<<1, 2>>, <<2, 2>>, <<2, 3>>}
\* the annealing engine is also run on a cube with more vertices than its
\* size limit lets a code hold
AnnealingCubes == EngineCubes \cup {<<3, 2>>}
MutationRates == {[num |-> 0, den |-> 2], [num |-> 1, den |-> 2]}
PopulationSizes == {1, 2}
ElitismKs == {0, 1}
InitialTemps == {Frac(0, 1), Frac(1, 1), Frac(-1, 1000)}
CoolingRates == {Frac(1, 2)}
CollisionPenalties == {0, 3}

\* The populations of a cube with more vertices than n+1 are too many to follow
\* over several generations: there, a run lasts at most one generation.
Tried(c, population_size, generations, elitism_k) ==
    \/ Len(vertices(c)) <= c.n + 1
    \/ generations <= 1

\* an engine has been constructed on a cube; run() has not been called
EngineConstructed(c, config) ==
    /\ pc = "constructed"
    /\ args = [n |-> c.n, s |-> c.s]
    /\ cube = c
    /\ call = None /\ ret = None /\ exc = None
    /\ cfg = config
    /\ population = << >> /\ gen = 0
    /\ cur = None /\ best = None /\ temp = None
    /\ result = << >> /\ verified = << >>

InitEngines ==
    \/ \E ns \in EngineCubes :
        LET c == WithVertexSet(NewCube(ns[1], ns[2]))
        IN  \/ \E population_size \in PopulationSizes, generations \in 0..MaxGenerations,
                  mutation_rate \in MutationRates, elitism_k \in ElitismKs :
                   /\ Tried(c, population_size, generations, elitism_k)
                   /\ EngineConstructed(c, GA_Config(c, population_size, generations,
                                                     mutation_rate, elitism_k))
            \/ \E population_size \in PopulationSizes, generations \in 0..MaxGenerations,
                  mutation_rate \in MutationRates, elitism_k \in ElitismKs,
                  local_search_steps \in 0..MaxLocalSteps :
                   /\ Tried(c, population_size, generations, elitism_k)
                   /\ EngineConstructed(c, MA_Config(c, population_size, generations,
                                                     mutation_rate, elitism_k,
                                                     local_search_steps))
    \/ \E ns \in AnnealingCubes :
        LET c == WithVertexSet(NewCube(ns[1], ns[2]))
        IN  \E initial_temp \in InitialTemps, cooling_rate \in CoolingRates,
               max_iterations \in 0..MaxIterations,
               collision_penalty \in CollisionPenalties :
                EngineConstructed(c, SA_Config(c, initial_temp, cooling_rate,
                                               max_iterations, collision_penalty))

NextEngines ==
    \/ GA_Start
    \/ GA_Generation
    \/ GA_Exhausted
    \/ MA_Start
    \/ MA_Generation
    \/ MA_Exhausted
    \/ SA_Start
    \/ SA_Iteration
    \/ SA_Exhausted

SpecEngines == InitEngines /\ [][NextEngines]_vars

\* ------------------------------------------------- generate_hamming_code
\* a ^ b on naturals
RECURSIVE Xor(_, _)
Xor(a, b) ==
    IF a = 0 THEN b
    ELSE IF b = 0 THEN a
    ELSE ((a + b) % 2) + 2 * Xor(a \div 2, b \div 2)

\* the syndrome loop of generate_hamming_code from position j (1-based) on
RECURSIVE SyndromeFrom(_, _, _)
SyndromeFrom(bits, j, syndrome) ==
    IF j > Len(bits) THEN syndrome
    ELSE SyndromeFrom(bits, j + 1, IF bits[j] = "1" THEN Xor(syndrome, j) ELSE syndrome)

IsHammingCodeword(bits) == SyndromeFrom(bits, 1, 0) = 0

\* generate_hamming_code(r), r >= 1: the words of length 2^r - 1 of syndrome
\* 0, in increasing order
generate_hamming_code(r) ==
    LET nn == 2^r - 1
    IN  SelectSeq([i \in 1..(2^nn) |-> format(i - 1, nn)], IsHammingCodeword)

\* r of the module's example, and the hypercube of the code's length as a cube
HammingR == 3
HammingCube == <<2^HammingR - 1, 2^HammingR>>

\* ------------------------------------------- the engines' pure functions
\* The methods _calculate_fitness, _calculate_energy and is_perfect_code read
\* the cube and their argument and change no state: one call per behaviour is
\* followed, on an engine object whose constructor has run.
EvalCubes == {<<2, 2>>, <<2, 3>>, <<3, 2>>, <<3, 3>>, <<3, 4>>, <<4, 2>>, <<4, 3>>}

\* the lists of vertices handed to the functions
EvalCodes(c) == Lists(ToSet(vertices(c)), EvalMaxLen)

\* GeneticAlgorithmSearch._calculate_fitness(code)
CallGAFitness ==
    /\ pc = "evaluator"
    /\ \E code \in EvalCodes(cube) :
        /\ call' = [op |-> "ga_fitness", code |-> code]
        /\ ret' = GA_calculate_fitness(cube, code)
    /\ exc' = None
    /\ pc' = "evaluated"
    /\ UNCHANGED <<args, cube, engVars>>

\* MemeticAlgorithmSearch._calculate_fitness(code)
CallMAFitness ==
    /\ pc = "evaluator"
    /\ \E code \in EvalCodes(cube) :
        /\ call' = [op |-> "ma_fitness", code |-> code]
        /\ ret' = MA_calculate_fitness(cube, code)
    /\ exc' = None
    /\ pc' = "evaluated"
    /\ UNCHANGED <<args, cube, engVars>>

\* SimulatedAnnealingSearch._calculate_energy(code), on an engine constructed
\* with the given collision_penalty
CallSAEnergy ==
    /\ pc = "evaluator"
    /\ \E code \in EvalCodes(cube), collision_penalty \in CollisionPenalties :
        /\ call' = [op |-> "sa_energy", code |-> code,
                    collision_penalty |-> collision_penalty]
        /\ ret' = SA_calculate_energy(cube, collision_penalty, code)
    /\ exc' = None
    /\ pc' = "evaluated"
    /\ UNCHANGED <<args, cube, engVars>>

\* the cubes on which two codes are compared
TournamentCubes == {ns \in EvalCubes : ns[1] <= 3}

\* the tournament of _selection on two individuals of fitnesses f_i and f_j:
\* which one `fitnesses[i] > fitnesses[j]` makes the winner
GA_Tournament(f_i, f_j) ==
    [fitness_i |-> f_i, fitness_j |-> f_j, winner |-> IF f_i > f_j THEN "i" ELSE "j"]

CallGATournament ==
    /\ pc = "evaluator"
    /\ <<cube.n, cube.s>> \in TournamentCubes
    /\ \E code_i, code_j \in Lists(ToSet(vertices(cube)), EvalMaxLen - 1) :
        /\ call' = [op |-> "ga_tournament", code_i |-> code_i, code_j |-> code_j]
        /\ ret' = GA_Tournament(GA_calculate_fitness(cube, code_i),
                                GA_calculate_fitness(cube, code_j))
    /\ exc' = None
    /\ pc' = "evaluated"
    /\ UNCHANGED <<args, cube, engVars>>

\* the same tournament on the hypercube of the Hamming code: the first k
\* codewords of the code against the whole code with one more vertex
CallGATournamentHamming ==
    /\ pc = "hamming_evaluator"
    /\ \E code \in {generate_hamming_code(HammingR)} :
       \E extra \in ToSet(vertices(cube)) \ ToSet(code) :
       \E f_j \in {GA_calculate_fitness(cube, Append(code, extra))} :
       \E k \in 0..Len(code) :
         /\ call' = [op |-> "ga_tournament", code_i |-> SubSeq(code, 1, k),
                     code_j |-> Append(code, extra)]
         /\ ret' = GA_Tournament(GA_calculate_fitness(cube, SubSeq(code, 1, k)), f_j)
    /\ exc' = None
    /\ pc' = "evaluated"
    /\ UNCHANGED <<args, cube, engVars>>

\* the lists handed to the local repair: every list of vertices on cubes of
\* up to 3 positions; on larger cubes the duplicate-free lists in the order of
\* vertices, since line 46 makes a set of the list before anything else
RepairCodes(c) ==
    IF c.n <= 3 THEN EvalCodes(c)
    ELSE {SelectSeq(vertices(c), LAMBDA v : v \in S)
          : S \in {X \in SUBSET ToSet(vertices(c)) : Cardinality(X) <= EvalMaxLen}}

\* MemeticAlgorithmSearch._local_search_optimizer(code), on an engine
\* constructed with the given local_search_steps, followed pass by pass of
\* its loop.  Line 46: current_code = set(code)
CallLocalSearch ==
    /\ pc = "evaluator"
    /\ \E code \in RepairCodes(cube), local_search_steps \in 0..MaxLocalSteps :
        /\ call' = [op |-> "local_search", code |-> code,
                    local_search_steps |-> local_search_steps]
        /\ cur' = ToSet(code)
    /\ gen' = 0
    /\ pc' = "repairing"
    /\ UNCHANGED <<args, cube, ret, exc, cfg, population, best, temp, result, verified>>

\* lines 47-70: one pass of the loop
RepairStep ==
    /\ pc = "repairing"
    /\ gen < call.local_search_steps
    /\ cur' \in MA_LocalStep(cube, cur)
    /\ gen' = gen + 1
    /\ UNCHANGED <<pc, args, cube, call, ret, exc, cfg, population, best, temp,
                   result, verified>>

\* line 72: return list(current_code)
RepairReturn ==
    /\ pc = "repairing"
    /\ gen >= call.local_search_steps
    /\ ret' \in Perms(cur)
    /\ pc' = "evaluated"
    /\ UNCHANGED <<args, cube, call, exc, cfg, population, gen, cur, best, temp,
                   result, verified>>

InitEval ==
    /\ \/ /\ pc = "evaluator"
          /\ \E ns \in EvalCubes :
              /\ args = [n |-> ns[1], s |-> ns[2]]
              /\ cube = WithVertexSet(NewCube(ns[1], ns[2]))
       \/ /\ pc = "hamming_evaluator"
          /\ args = [n |-> HammingCube[1], s |-> HammingCube[2]]
          /\ cube = WithVertexSet(NewCube(HammingCube[1], HammingCube[2]))
    /\ call = None /\ ret = None /\ exc = None
    /\ NoEngine

NextEval ==
    \/ CallGAFitness
    \/ CallMAFitness
    \/ CallSAEnergy
    \/ CallGATournament
    \/ CallGATournamentHamming
    \/ CallLocalSearch
    \/ RepairStep
    \/ RepairReturn

SpecEval == InitEval /\ [][NextEval]_vars

\* --------------------------------------- the engines and their verifier
\* the runs of the engines, together with the calls of the searcher each
\* engine holds (self.searcher)
InitSearch == InitEngines \/ InitVerify

NextSearch == NextEngines \/ NextVerify

SpecSearch == InitSearch /\ [][NextSearch]_vars

\* ------------------------------------------ the annealing move on its own
\* SimulatedAnnealingSearch._get_neighbor(current_code) reads the cube,
\* theoretical_size and its argument and changes no state.  It is called here
\* on cubes whose theoretical size is 3 or more, too large for whole runs to
\* be followed, with codes made of the first MaxPool vertices.
NeighborCubes == {<<4, 5>>, <<5, 4>>}

NeighborCodes(c) == UNION {Perms(S) : S \in SUBSET ToSet(SubSeq(vertices(c), 1, MaxPool))}

CallGetNeighbor ==
    /\ pc = "evaluator"
    /\ <<cube.n, cube.s>> \in NeighborCubes
    /\ \E current_code \in NeighborCodes(cube) :
        /\ call' = [op |-> "get_neighbor", current_code |-> current_code]
        /\ ret' \in SA_get_neighbor(cube, get_theoretical_code_size(cube), current_code)
    /\ exc' = None
    /\ pc' = "evaluated"
    /\ UNCHANGED <<args, cube, engVars>>

InitNeighbor ==
    /\ pc = "evaluator"
    /\ \E ns \in NeighborCubes :
        /\ args = [n |-> ns[1], s |-> ns[2]]
        /\ cube = WithVertexSet(NewCube(ns[1], ns[2]))
    /\ call = None /\ ret = None /\ exc = None
    /\ NoEngine

\* the runs of the engines, together with calls of the annealing move
InitAnneal == InitEngines \/ InitNeighbor

NextAnneal == NextEngines \/ CallGetNeighbor

SpecAnneal == InitAnneal /\ [][NextAnneal]_vars

\* ============================================================== properties
\* Definitions of the mathematics the claims are stated in, independent of
\* the program's own operators.

HammingDist(a, b) == Cardinality({i \in 1..Len(a) : a[i] # b[i]})

\* v has s cyclically consecutive positions p, p+1, ..., p+s-1 (mod n) all set
CircularRun(v, ss) ==
    \E p \in 0..(Len(v) - 1) :
        \A k \in 0..(ss - 1) : v[((p + k) % Len(v)) + 1] = "1"

\* the closed neighbourhood of v in the vertex set V
ClosedNbhd(V, v) == {u \in V : HammingDist(u, v) <= 1}

RECURSIVE SumNbhdSizes(_, _, _)
SumNbhdSizes(V, C, i) ==
    IF i > Len(C) THEN 0
    ELSE Cardinality(ClosedNbhd(V, C[i])) + SumNbhdSizes(V, C, i + 1)

\* every vertex lies in the closed neighbourhood of exactly one entry of C
ExactCover(V, C) ==
    /\ \A i \in 1..Len(C) : C[i] \in V
    /\ \A v \in V : Cardinality({i \in 1..Len(C) : v \in ClosedNbhd(V, C[i])}) = 1

\* C lists a subset of V: its entries are vertices, none repeated
ListsSubset(V, C) ==
    /\ \A i \in 1..Len(C) : C[i] \in V
    /\ \A i, j \in 1..Len(C) : i # j => C[i] # C[j]

CubeV == Val(cube._vertex_set)
Returned(op) == pc = "returned" /\ call.op = op
Bits3(a, b, c) == <<a, b, c>>

\* C1: is_perfect_code(C) is true iff every codeword is a vertex and every
\* vertex lies in the closed neighbourhood of exactly one entry of C; and when
\* it is true the closed neighbourhoods are pairwise disjoint, their union is
\* the vertex set, and their sizes sum to |VertexSet|.
C1_PerfectIffExactCover ==
    Returned("is_perfect_code") =>
        LET C == call.C
        IN  /\ ret <=> ExactCover(CubeV, C)
            /\ ret =>
                /\ \A i, j \in 1..Len(C) :
                       i # j => ClosedNbhd(CubeV, C[i]) \cap ClosedNbhd(CubeV, C[j]) = {}
                /\ UNION {ClosedNbhd(CubeV, C[i]) : i \in 1..Len(C)} = CubeV
                /\ SumNbhdSizes(CubeV, C, 1) = Cardinality(CubeV)

\* C1 witness: a two-word perfect code, one of whose closed neighbourhoods
\* has fewer than n+1 elements
C1_Witness ==
    /\ Returned("is_perfect_code")
    /\ ret
    /\ Len(call.C) = 2
    /\ \E i \in 1..2 : Cardinality(ClosedNbhd(CubeV, call.C[i])) < cube.n + 1

\* C3 as stated: when |VertexSet| / (n+1) is not an integer, is_perfect_code
\* is false for every subset of the vertex set.
C3_Original_NonIntegralNoPerfectCode ==
    (/\ Returned("is_perfect_code")
     /\ ~IsIntegral(get_theoretical_code_size(cube))
     /\ ListsSubset(CubeV, call.C))
    => ~ret

\* C3 amended: in a cube with n < s (the full hypercube, every closed
\* neighbourhood of n+1 elements), when |VertexSet| / (n+1) is not an integer,
\* is_perfect_code is false for every subset of the vertex set.
C3_HypercubeNonIntegralNoPerfectCode ==
    (/\ Returned("is_perfect_code")
     /\ cube.n < cube.s
     /\ ~IsIntegral(get_theoretical_code_size(cube))
     /\ ListsSubset(CubeV, call.C))
    => ~ret

\* C3 witness: the whole vertex set of a hypercube of non-integral
\* theoretical size, offered as a code and rejected
C3_Witness ==
    /\ Returned("is_perfect_code")
    /\ cube.n < cube.s
    /\ ~IsIntegral(get_theoretical_code_size(cube))
    /\ ListsSubset(CubeV, call.C)
    /\ ToSet(call.C) = CubeV
    /\ ~ret

\* C6: is_perfect_code(C) returns false, without raising, for the empty code,
\* for a C that contains a non-vertex anywhere, and for a C with two entries
\* at Hamming distance less than 3 (a repeated codeword included).
C6_RejectsEmptyNonMemberClose ==
    (/\ Returned("is_perfect_code")
     /\ \/ Len(call.C) = 0
        \/ \E i \in 1..Len(call.C) : call.C[i] \notin CubeV
        \/ \E i, j \in 1..Len(call.C) :
               i # j /\ HammingDist(call.C[i], call.C[j]) < 3)
    => (ret = FALSE /\ exc = None)

\* C6 witness: two vertices at distance 2, one of whose two common hypercube
\* neighbours is not in the cube, and no other reason to reject
C6_Witness ==
    /\ Returned("is_perfect_code")
    /\ ret = FALSE
    /\ Len(call.C) = 2
    /\ \A i \in 1..2 : call.C[i] \in CubeV
    /\ HammingDist(call.C[1], call.C[2]) = 2
    /\ \E u \in BitStrings(cube.n) :
           /\ HammingDist(u, call.C[1]) = 1
           /\ HammingDist(u, call.C[2]) = 1
           /\ u \notin CubeV

\* C8: in Cube(3, 3), is_perfect_code(['010', '101']) is true and
\* is_perfect_code(['000', '110']) is false.
C8_Cube33Examples ==
    (Returned("is_perfect_code") /\ cube.n = 3 /\ cube.s = 3) =>
        /\ call.C = <<Bits3("0", "1", "0"), Bits3("1", "0", "1")>> => ret = TRUE
        /\ call.C = <<Bits3("0", "0", "0"), Bits3("1", "1", "0")>> => ret = FALSE

\* C8 witness: the call on ['010', '101'] in Cube(3, 3) has returned true
C8_Witness ==
    /\ Returned("is_perfect_code") /\ cube.n = 3 /\ cube.s = 3
    /\ call.C = <<Bits3("0", "1", "0"), Bits3("1", "0", "1")>>
    /\ ret = TRUE

\* ------------------------------------------------- the cube (SpecCube)
VerticesCached == pc = "ready" /\ ~IsNone(cube._vertices)

\* C2 as stated: for every n >= 1 and s >= 2 the computed vertex set is the
\* set of n-bit vectors with no start position p whose s cyclically
\* consecutive positions (mod n) are all set.
C2_Original_NoCircularRunModN ==
    VerticesCached =>
        ToSet(Val(cube._vertices)) =
            {v \in BitStrings(cube.n) : ~CircularRun(v, cube.s)}

\* C2 amended: for n >= s the computed vertex set is the set of n-bit vectors
\* with no s cyclically consecutive set positions (mod n), each listed once;
\* for n < s it is the set of all 2^n n-bit vectors.
C2_VertexSetExact ==
    VerticesCached =>
        LET vs == Val(cube._vertices)
        IN  /\ Cardinality(ToSet(vs)) = Len(vs)
            /\ cube.n >= cube.s =>
                   ToSet(vs) = {v \in BitStrings(cube.n) : ~CircularRun(v, cube.s)}
            /\ cube.n < cube.s =>
                   ToSet(vs) = BitStrings(cube.n) /\ Len(vs) = 2 ^ cube.n

\* C2 witness: a cube with s <= n < 2s-2 (the seam's two halves overlap) that
\* excludes a vector only because of a wrap-around run
C2_Witness ==
    /\ VerticesCached
    /\ cube.s <= cube.n /\ cube.n < 2 * cube.s - 2
    /\ \E v \in BitStrings(cube.n) :
           /\ v \notin ToSet(Val(cube._vertices))
           /\ ~StrIn(cube.forbidden_pattern, v)

\* C7 as stated: in Cube(3, 3), '111' is excluded, '110' is included and the
\* vertex set has exactly 6 elements.
C7_Original_Cube33SixVertices ==
    (VerticesCached /\ cube.n = 3 /\ cube.s = 3) =>
        /\ Bits3("1", "1", "1") \notin ToSet(Val(cube._vertices))
        /\ Bits3("1", "1", "0") \in ToSet(Val(cube._vertices))
        /\ Len(Val(cube._vertices)) = 6

\* C7 amended: in Cube(3, 3), '111' is excluded, '110' is included and the
\* vertex set has exactly 7 elements (every 3-bit vector but '111').
C7_Cube33SevenVertices ==
    (VerticesCached /\ cube.n = 3 /\ cube.s = 3) =>
        /\ Bits3("1", "1", "1") \notin ToSet(Val(cube._vertices))
        /\ Bits3("1", "1", "0") \in ToSet(Val(cube._vertices))
        /\ Len(Val(cube._vertices)) = 7
        /\ ToSet(Val(cube._vertices)) = BitStrings(3) \ {Bits3("1", "1", "1")}

\* C7 witness: Cube(3, 3) with its vertex list computed, holding '110' and
\* not '111'
C7_Witness ==
    /\ VerticesCached /\ cube.n = 3 /\ cube.s = 3
    /\ Bits3("1", "1", "0") \in ToSet(Val(cube._vertices))
    /\ Bits3("1", "1", "1") \notin ToSet(Val(cube._vertices))

\* C9: for a vertex v, get_closed_neighborhood(v) contains v, repeats nothing,
\* is a subset of the vertex set, is exactly v and the vertices at Hamming
\* distance 1 from v, and has between 1 and n+1 elements; for an n-bit string
\* that is not a vertex it is empty.
C9_ClosedNeighborhood ==
    (pc = "ready" /\ call.op = "get_closed_neighborhood") =>
        LET v == call.bits
            V == Val(cube._vertex_set)
        IN  IF v \in V
            THEN /\ \E i \in 1..Len(ret) : ret[i] = v
                 /\ Cardinality(ToSet(ret)) = Len(ret)
                 /\ ToSet(ret) \subseteq V
                 /\ ToSet(ret) = {v} \cup {u \in V : HammingDist(u, v) = 1}
                 /\ 1 <= Len(ret) /\ Len(ret) <= cube.n + 1
            ELSE ret = << >>

\* C9 witness: a vertex some of whose hypercube neighbours are outside the
\* cube and some inside
C9_Witness ==
    /\ pc = "ready" /\ call.op = "get_closed_neighborhood"
    /\ call.bits \in Val(cube._vertex_set)
    /\ 1 < Len(ret) /\ Len(ret) < cube.n + 1

\* C10: construction fails with a parameter error exactly when n < 1 or
\* s < 2; for n >= 1 and s >= 2 it succeeds, also when n < s.
C10_ConstructorValidation ==
    pc # "new" =>
        /\ (pc = "raised" /\ exc = "ValueError") <=> (args.n < 1 \/ args.s < 2)
        /\ (pc = "ready" /\ exc = None) <=> (args.n >= 1 /\ args.s >= 2)
        /\ pc = "ready" => (cube.n = args.n /\ cube.s = args.s)

\* C10 witness: a cube with n < s has been constructed
C10_Witness ==
    /\ pc = "ready" /\ exc = None
    /\ args.n < args.s
    /\ cube.n = args.n

\* C4: in the three engines, run() returns None or a code for which the last
\* is_perfect_code call of the run, made on that very code, returned true;
\* a returned code is accepted by the verifier and is an exact cover.
C4_SuccessIsVerified ==
    pc = "done" =>
        \/ result = << >>
        \/ /\ verified = <<[code |-> result[1], ok |-> TRUE]>>
           /\ is_perfect_code(cube, result[1])
           /\ ExactCover(ToSet(vertices(cube)), result[1])

\* C4 witness: an annealing run with collision_penalty 0 has returned a code
\* the verifier accepted
C4_Witness ==
    /\ pc = "done" /\ cfg.kind = "sa" /\ cfg.collision_penalty = 0
    /\ result # << >>
    /\ verified = <<[code |-> result[1], ok |-> TRUE]>>

\* C5 as stated: on a cube whose theoretical code size is not an integer an
\* engine never enters its loop, and ends reporting InfeasibleParameters.
C5_Original_NonIntegralAbortsEarly ==
    (pc # "constructed" /\ ~IsIntegral(get_theoretical_code_size(cube))) =>
        /\ pc # "loop"
        /\ gen = 0
        /\ exc = "InfeasibleParameters"

\* C11 as stated: with population_size >= 2 (genetic, memetic) or
\* max_iterations >= 0 (annealing) no step of a run raises an exception; a run
\* ends by returning a verified code or by using up its budget.
C11_Original_NoStepRaises ==
    (cfg.kind \in {"ga", "ma"} => cfg.population_size >= 2) =>
        /\ pc # "raised"
        /\ exc = None

\* C12: at every evaluation point of a run (each individual of the population
\* of the genetic and memetic engines, the current and the best code of the
\* annealing engine) the code lists vertices of the cube only and repeats none.
C12_CodesAreVertexSets ==
    /\ (cfg.kind \in {"ga", "ma"} /\ pc # "constructed") =>
           \A i \in 1..Len(population) : ListsSubset(Val(cube._vertex_set), population[i])
    /\ (cfg.kind = "sa" /\ pc # "constructed") =>
           /\ ListsSubset(Val(cube._vertex_set), cur.code)
           /\ ListsSubset(Val(cube._vertex_set), best.code)

\* C12 witness: a memetic population bred with mutation holds an individual
\* larger than the initial ones
C12_Witness ==
    /\ cfg.kind = "ma" /\ pc = "loop" /\ gen >= 1
    /\ cfg.mutation_rate.num > 0
    /\ \E i \in 1..Len(population) : Len(population[i]) > cfg.theoretical_size

\* the number of unordered pairs of entries of C at Hamming distance < 3
PairsWithin3(C) ==
    Cardinality({p \in (1..Len(C)) \X (1..Len(C)) :
                    p[1] < p[2] /\ HammingDist(C[p[1]], C[p[2]]) < 3})

\* the union of the closed neighbourhoods of the entries of C
Covered(V, C) == UNION {ClosedNbhd(V, C[i]) : i \in 1..Len(C)}

Evaluated(op) == pc = "evaluated" /\ call.op = op

\* C13 as stated: for a duplicate-free code of vertices the genetic fitness is
\* coverage - collisions * (n+1) * 10, collisions the number of unordered pairs
\* of codewords at Hamming distance < 3, whatever the order of the list.
C13_Original_FitnessCountsPairs ==
    (Evaluated("ga_fitness") /\ ListsSubset(CubeV, call.code)) =>
        /\ ret = Cardinality(Covered(CubeV, call.code))
                     - PairsWithin3(call.code) * (cube.n + 1) * 10
        /\ \A other \in Perms(ToSet(call.code)) :
               GA_calculate_fitness(cube, other) = ret

\* C14: for a duplicate-free code of vertices, the memetic _calculate_fitness
\* returns (coverage - uncovered*n - collisions*n*10, uncovered, collisions)
\* and the annealing _calculate_energy returns
\* (uncovered*n + collisions*collision_penalty, uncovered, collisions), with
\* uncovered = |V| - |union of the closed neighbourhoods| and collisions the
\* number of unordered pairs of codewords at Hamming distance < 3.
C14_FitnessAndEnergy ==
    (pc = "evaluated" /\ call.op \in {"ma_fitness", "sa_energy"}
        /\ ListsSubset(CubeV, call.code)) =>
        LET coverage == Cardinality(Covered(CubeV, call.code))
            uncovered == Cardinality(CubeV) - coverage
            collisions == PairsWithin3(call.code)
        IN  /\ ret.uncovered = uncovered
            /\ ret.collisions = collisions
            /\ call.op = "ma_fitness" =>
                   ret.fitness = coverage - uncovered * cube.n - collisions * cube.n * 10
            /\ call.op = "sa_energy" =>
                   ret.energy = uncovered * cube.n + collisions * call.collision_penalty

\* C14 witness: the memetic fitness of a code of three codewords that has two
\* close pairs and one far pair and leaves vertices uncovered
C14_Witness ==
    /\ Evaluated("ma_fitness") /\ ListsSubset(CubeV, call.code)
    /\ Len(call.code) = 3 /\ PairsWithin3(call.code) = 2
    /\ ret.uncovered > 0 /\ ret.collisions = 2

\* C15 as stated: in the genetic engine a code A without collision has a
\* greater fitness than a code B with at least one collision, in every cube.
C15_Original_CollisionFreeOutranks ==
    (Evaluated("ga_tournament")
        /\ PairsWithin3(call.code_i) = 0 /\ ListsSubset(CubeV, call.code_i)
        /\ PairsWithin3(call.code_j) >= 1 /\ ListsSubset(CubeV, call.code_j)) =>
        /\ ret.fitness_i > ret.fitness_j
        /\ ret.winner = "i"

\* C16: in the annealing engine, after the initial state and after every
\* iteration, best_energy is the energy of best_code and is at most
\* current_energy; it starts as the first current energy and each iteration
\* makes it the minimum of its old value and the new current energy, so it is
\* the minimum over all current codes so far and never increases; a current
\* code that is not better than the best leaves best_code as it was.
C16_BestTracksMinimum ==
    [][(cfg.kind = "sa" /\ pc \in {"constructed", "loop"} /\ pc' \in {"loop", "done"}) =>
          /\ best'.energy =
                 SA_calculate_energy(cube, cfg.collision_penalty, best'.code).energy
          /\ best'.energy <= cur'.energy
          /\ pc = "constructed" => (best'.energy = cur'.energy /\ best'.code = cur'.code)
          /\ pc = "loop" =>
                 /\ best'.energy = Min(best.energy, cur'.energy)
                 /\ best'.energy <= best.energy
                 /\ cur'.energy >= best.energy => best' = best]_vars

\* C16 witness: a move to a code of higher energy than the best was accepted
\* and the best code is another one
C16_Witness ==
    /\ cfg.kind = "sa" /\ pc = "loop" /\ gen >= 1
    /\ cur.energy > best.energy
    /\ ToSet(cur.code) # ToSet(best.code)

\* the vertices of V covered by no codeword of the set S
UncoveredBy(V, S) == V \ UNION {ClosedNbhd(V, x) : x \in S}

\* the codewords of the set S that have another codeword of S at distance < 3
InClosePair(S) == {x \in S : \E y \in S : y # x /\ HammingDist(x, y) < 3}

\* C17: in the memetic local repair every step that starts with a pair of
\* codewords at distance < 3 removes exactly one codeword of such a pair and
\* adds nothing; otherwise, if a vertex is uncovered, it adds exactly one new
\* codeword from the closed neighbourhood of an uncovered vertex and the
\* number of uncovered vertices strictly decreases; otherwise it changes
\* nothing.  At most local_search_steps steps are made, and a perfect code is
\* returned unchanged as a set.
C17_RepairSteps ==
    [][/\ (pc = "repairing" /\ pc' = "repairing") =>
             /\ gen' = gen + 1 /\ gen' <= call.local_search_steps
             /\ IF InClosePair(cur) # {}
                THEN \E x \in InClosePair(cur) : cur' = cur \ {x}
                ELSE IF UncoveredBy(CubeV, cur) # {}
                THEN /\ \E a \in CubeV \ cur :
                           /\ cur' = cur \cup {a}
                           /\ \E v \in UncoveredBy(CubeV, cur) : a \in ClosedNbhd(CubeV, v)
                     /\ Cardinality(UncoveredBy(CubeV, cur'))
                            < Cardinality(UncoveredBy(CubeV, cur))
                ELSE cur' = cur
       /\ (pc = "repairing" /\ pc' = "evaluated") =>
             /\ ToSet(ret') = cur /\ Len(ret') = Cardinality(cur)
             /\ ExactCover(CubeV, call.code) => ToSet(ret') = ToSet(call.code)]_vars

\* C17 witness: from a code with a colliding pair beside a codeword that is
\* in no colliding pair, a repair step has removed a codeword
C17_Witness ==
    /\ pc = "repairing" /\ gen = 1
    /\ InClosePair(ToSet(call.code)) # {}
    /\ InClosePair(ToSet(call.code)) # ToSet(call.code)
    /\ Cardinality(cur) = Cardinality(ToSet(call.code)) - 1

InEngine == pc \in {"constructed", "loop", "done", "raised"}

\* C18: for a duplicate-free code C of vertices, is_perfect_code(C) is true
\* iff no vertex is uncovered and no two codewords are at distance < 3.  So
\* with collision_penalty > 0 the current and best codes of an annealing run
\* have energy 0 iff the verifier accepts them, and neither an annealing run
\* with collision_penalty > 0 nor a memetic run ever sees the verifier reject
\* the code its pre-check let through.
C18_PrecheckIffPerfect ==
    /\ (Returned("is_perfect_code") /\ ListsSubset(CubeV, call.C)) =>
           (ret <=> (UncoveredBy(CubeV, ToSet(call.C)) = {} /\ PairsWithin3(call.C) = 0))
    /\ (InEngine /\ pc # "constructed" /\ cfg.kind = "sa" /\ cfg.collision_penalty > 0) =>
           /\ (cur.energy = 0) <=> is_perfect_code(cube, cur.code)
           /\ (best.energy = 0) <=> is_perfect_code(cube, best.code)
    /\ (InEngine /\ (cfg.kind = "ma" \/ (cfg.kind = "sa" /\ cfg.collision_penalty > 0))) =>
           (verified = << >> \/ verified[1].ok)

\* C18 witness: the verifier has accepted a code of two codewords
C18_Witness ==
    /\ Returned("is_perfect_code") /\ ListsSubset(CubeV, call.C)
    /\ Len(call.C) = 2
    /\ ret = TRUE

\* R comes from the set S of codewords by at most one move: nothing, one vertex
\* added, one codeword removed, or one codeword swapped for a vertex outside S
OneMove(V, S, R) ==
    \/ R = S
    \/ \E a \in V \ S : R = S \cup {a}
    \/ \E r \in S : R = S \ {r}
    \/ \E r \in S, a \in V \ S : R = (S \ {r}) \cup {a}

\* the size k lies strictly between T - 3 and T + 3, T = |V| / (n + 1)
NearT(k) ==
    /\ Cardinality(CubeV) - 3 * (cube.n + 1) < k * (cube.n + 1)
    /\ k * (cube.n + 1) < Cardinality(CubeV) + 3 * (cube.n + 1)

\* C19: in the annealing engine, with T = |V| / (n+1), the current code at the
\* start and after every iteration is not empty and its size k satisfies
\* T - 3 < k < T + 3; the current code after an iteration comes from the one
\* before by at most one added, removed or swapped codeword.  The neighbour
\* generated from any code differs from it by at most one such move and is
\* not empty, and from a code of a size strictly between T - 3 and T + 3 it
\* has again such a size.
C19_SizeStaysNearT ==
    [][/\ (pc \in {"constructed", "loop"} /\ pc' \in {"loop", "done"}
            /\ cfg.kind = "sa") =>
             LET k == Cardinality(ToSet(cur'.code))
             IN  /\ k >= 1 /\ Len(cur'.code) = k
                 /\ NearT(k)
                 /\ pc = "loop" => OneMove(CubeV, ToSet(cur.code), ToSet(cur'.code))
       /\ (pc = "evaluator" /\ pc' = "evaluated" /\ call'.op = "get_neighbor") =>
             LET S == ToSet(call'.current_code)
                 R == ToSet(ret')
             IN  /\ R # {} /\ Len(ret') = Cardinality(R)
                 /\ OneMove(CubeV, S, R)
                 /\ NearT(Cardinality(S)) => NearT(Cardinality(R))]_vars

\* C19 witness: in a cube with T > 4 the move was asked of a code of the
\* smallest size above T - 3, which is more than one, and left it as it was:
\* the removal was refused
C19_Witness ==
    /\ Evaluated("get_neighbor")
    /\ Cardinality(CubeV) > 4 * (cube.n + 1)
    /\ Len(call.current_code) >= 2
    /\ NearT(Len(call.current_code)) /\ ~NearT(Len(call.current_code) - 1)
    /\ ToSet(ret) = ToSet(call.current_code)

\* the fitness the engine of the run gives a code, and the best of a population
FitnessOf(code) ==
    IF cfg.kind = "ga" THEN GA_calculate_fitness(cube, code)
    ELSE MA_calculate_fitness(cube, code).fitness

BestFitness(pop) ==
    CHOOSE f \in {FitnessOf(pop[i]) : i \in 1..Len(pop)} :
        \A i \in 1..Len(pop) : FitnessOf(pop[i]) <= f

\* C20: in the genetic and memetic engines with elitism_k >= 1 and
\* population_size >= 2 the population has population_size individuals at
\* every generation; a generation step puts first, unchanged, elitism_k
\* individuals of the old population that no other individual of it
\* outranks; and the best fitness of the population does not decrease.
C20_ElitismKeepsBest ==
    [][(cfg.kind \in {"ga", "ma"} /\ cfg.elitism_k >= 1 /\ cfg.population_size >= 2
          /\ pc \in {"constructed", "loop"} /\ pc' \in {"loop", "done"}) =>
          /\ Len(population') = cfg.population_size
          /\ (pc = "loop" /\ gen' = gen + 1) =>
                 LET N == Len(population)
                     k == Min(cfg.elitism_k, N)
                 IN  /\ \E f \in [1..k -> 1..N] :
                            /\ \A i, j \in 1..k : i # j => f[i] # f[j]
                            /\ \A i \in 1..k : population'[i] = population[f[i]]
                            /\ \A i \in 1..k : \A j \in 1..N :
                                   (\A h \in 1..k : f[h] # j) =>
                                       FitnessOf(population[j]) <= FitnessOf(population[f[i]])
                     /\ BestFitness(population') >= BestFitness(population)]_vars

\* C20 witness: a generation with elitism has bred a child that is worse than
\* the individual carried over
C20_Witness ==
    /\ cfg.kind \in {"ga", "ma"} /\ cfg.elitism_k >= 1 /\ cfg.population_size >= 2
    /\ pc = "loop" /\ gen >= 1
    /\ FitnessOf(population[2]) < FitnessOf(population[1])

====
